---- MODULE Spec2Model ----
(***************************************************************************)
(* Batch rotation pipeline of ffrotate.                                    *)
(*                                                                         *)
(* Two front ends are modelled: the gradio entry point                     *)
(* batch_rotate_videos (ffrotate.py), which transcodes into a staging      *)
(* directory and moves the results afterwards, and the desktop entry point *)
(* FFRotateApp.process_videos (jlp-rotate.py, tkrotate.py,                 *)
(* jlp-rotate-pyside.py), which transcodes straight into the output        *)
(* directory.  Besides the batch, the                                      *)
(* preview of jlp-rotate.py and jlp-rotate-pyside.py (show_preview,        *)
(* extract_rotated_frame) and a call of rotate_video (ffrotate.py) on its   *)
(* own are modelled.                                                       *)
(*                                                                         *)
(* Paths and the error strings that the code later treats as paths are     *)
(* sequences of tokens; "/" and "." are tokens of their own, so that       *)
(* os.path.basename, os.path.splitext and Path.name are computed, not      *)
(* assumed.  The transcoder is the environment: for each invocation it     *)
(* either succeeds and writes the output, or exits non-zero (with or       *)
(* without a partial output file).  What shutil.which("ffmpeg") finds is    *)
(* part of the environment too, as is whether the program runs from a     *)
(* PyInstaller bundle and whether the bundle holds ffmpeg; none of these   *)
(* changes while a handler runs.                                           *)
(***************************************************************************)
EXTENDS Integers, Sequences, FiniteSets, TLC

VARIABLES
    pc,            \* position of the handler: idle, progress, rotate, finalize, jlp_rotate,
                   \* tk_rotate, pyside_rotate, preview_open, preview_closed, done
    variant,       \* which entry point was called: "gradio", "jlp", "tk", "pyside",
                   \* "jlp_preview", "pyside_preview" or "rotate_video"
    input_videos,  \* the ordered input list
    rotation,      \* the rotation selection (optional string)
    custom_angle,  \* the custom angle (optional number)
    output_dir,    \* the output directory (optional path)
    tmpdir,        \* the TemporaryDirectory of the with block, <<>> while none
    i,             \* number of completed loop iterations (index of the current item)
    moved,         \* number of completed shutil.move calls of the second loop
    output_files,  \* the local list output_files
    progressLog,   \* values passed to progress(...), in call order
    pbar,          \* tqdm counter of process_videos (the gui bar of jlp-rotate.py)
    invoked,       \* transcoder commands run, in order
    files,         \* file system: path -> content
    dirs,          \* file system: existing directories
    ffmpeg_path,   \* what shutil.which("ffmpeg") returns (optional path)
    frozen,        \* sys.frozen: the program runs from a PyInstaller bundle
    bundled_ffmpeg,\* the bundle holds ffmpeg/ffmpeg under sys._MEIPASS
    angle_text,    \* the text of the custom angle entry of the desktop front ends
    preview_runs,  \* commands run by the preview path (probe, frame extraction), in order
    result         \* how the call ended: pending / returned / raised / dialog

vars == <<pc, variant, input_videos, rotation, custom_angle, output_dir, tmpdir, i,
          moved, output_files, progressLog, pbar, invoked, files, dirs, ffmpeg_path,
          frozen, bundled_ffmpeg, angle_text, preview_runs, result>>

-----------------------------------------------------------------------------
(* Bounds *)

MaxBatch == 3

-----------------------------------------------------------------------------
(* Python values *)

Some(v) == [some |-> TRUE, val |-> v]
NoneStr == [some |-> FALSE, val |-> ""]
NoneNum == [some |-> FALSE, val |-> 0, float |-> FALSE]
IntNum(n) == [some |-> TRUE, val |-> n, float |-> FALSE]
FloatNum(n) == [some |-> TRUE, val |-> n, float |-> TRUE]
\* float("inf"): val holds the sign only.
InfNum == [some |-> TRUE, val |-> 1, float |-> TRUE, inf |-> TRUE]
NonePath == [some |-> FALSE, val |-> <<>>]

\* Python truthiness of an optional string / path: None and "" are falsy.
TruthySeq(o) == o.some /\ o.val # <<>>
\* Python truthiness of an optional number: None and 0 are falsy.
TruthyNum(o) == o.some /\ o.val # 0

-----------------------------------------------------------------------------
(* Paths *)

SEP == "/"
DOT == "."

RECURSIVE LastIndex(_, _)
\* Largest k with s[k] = tok, 0 when there is none (str.rfind + 1).
LastIndex(s, tok) ==
    IF s = <<>> THEN 0
    ELSE IF s[Len(s)] = tok THEN Len(s)
    ELSE LastIndex(SubSeq(s, 1, Len(s) - 1), tok)

\* os.path.basename / pathlib's Path(p).name: what follows the last separator.
basename(p) == SubSeq(p, LastIndex(p, SEP) + 1, Len(p))

\* os.path.splitext: split at the last dot that follows the last separator,
\* unless only dots precede it in the file name.
splitext(p) ==
    LET sepIndex == LastIndex(p, SEP)
        dotIndex == LastIndex(p, DOT)
    IN  IF dotIndex > sepIndex
           /\ \E k \in (sepIndex + 1)..(dotIndex - 1) : p[k] # DOT
        THEN <<SubSeq(p, 1, dotIndex - 1), SubSeq(p, dotIndex, Len(p))>>
        ELSE <<p, <<>>>>

\* os.path.join(d, name) and Path(d) / name for a relative name.
join(d, name) == d \o <<SEP>> \o name

\* The directory a path lies in; <<>> is the working directory.
parent(p) == SubSeq(p, 1, LastIndex(p, SEP) - 1)

IsUnder(p, d) == Len(p) > Len(d) /\ SubSeq(p, 1, Len(d) + 1) = d \o <<SEP>>

\* f"{base}_rotated{ext}" of rotate_video.
OutputFilename(input_path) ==
    LET be == splitext(basename(input_path))
    IN  be[1] \o <<"_rotated">> \o be[2]

-----------------------------------------------------------------------------
(* The inputs the model draws from *)

\* An uploaded item is a path string or a file object with a .name.
Str(p) == [str |-> p]
Handle(p) == [name |-> p]

\* if hasattr(input_video, "name"): input_video = input_video.name
InputPath(input_video) ==
    IF "name" \in DOMAIN input_video THEN input_video.name ELSE input_video.str

InputChoices ==
    { Str(<<"a", SEP, "x", DOT, "mp4">>),
      Handle(<<"b", SEP, "x", DOT, "mp4">>),
      Str(<<"a", SEP, "x", "_rotated", DOT, "mp4">>),
      Str(<<"b", SEP, "y", DOT, "tar", DOT, "mov">>) }

\* Input lists: up to MaxBatch items in any order, no item listed twice (two
\* of the choices still derive the same output name).
InputLists ==
    { s \in UNION { [1..n -> InputChoices] : n \in 0..MaxBatch } :
        \A j, k \in DOMAIN s : j # k => s[j] # s[k] }

RotationChoices == { Some("90"), Some("180"), Some("270"), Some("custom"), NoneStr }
AngleChoices == { NoneNum, IntNum(0), IntNum(45) }
OutputDirChoices ==
    { NonePath, Some(<<>>), Some(<<"out">>), Some(<<"new">>),
      Some(<<"p", SEP, "q">>), Some(<<"a">>) }

TmpDir == <<"tmp">>

InitialDirs == { <<"a">>, <<"b">>, <<"out">> }

\* File contents: an original, or what a transcoder run wrote (from which
\* input path, with which filter, and what that input held when it was read).
Source(p) == [kind |-> "source", of |-> p, by |-> "", from |-> ""]
Rotated(p, f, c) == [kind |-> "rotated", of |-> p, by |-> f, from |-> c.kind]
Partial(p, f, c) == [kind |-> "partial", of |-> p, by |-> f, from |-> c.kind]

InitialFiles == [p \in { InputPath(v) : v \in InputChoices } |-> Source(p)]

-----------------------------------------------------------------------------
(* File system operations *)

isdir(d) == d \in dirs
exists(p) == p \in DOMAIN files \/ p \in dirs
DirUsable(d) == d = <<>> \/ d \in dirs

\* Path(d).mkdir(): no parents, no exist_ok.
MkdirError(d) ==
    IF exists(d) THEN "FileExistsError"
    ELSE IF ~DirUsable(parent(d)) THEN "FileNotFoundError"
    ELSE "ok"

WriteFile(fs, p, content) ==
    [q \in DOMAIN fs \cup {p} |-> IF q = p THEN content ELSE fs[q]]

\* shutil.move(src, dst) of a file onto a file path: dst is replaced.
MoveFile(fs, src, dst) ==
    [q \in (DOMAIN fs \ {src}) \cup {dst} |-> IF q = dst THEN fs[src] ELSE fs[q]]

\* TemporaryDirectory.__exit__: the directory and everything in it.
RemoveTree(fs, d) == [q \in { r \in DOMAIN fs : ~IsUnder(r, d) } |-> fs[q]]

\* os.remove(p)
RemoveFile(fs, p) == [q \in DOMAIN fs \ {p} |-> fs[q]]

-----------------------------------------------------------------------------
(* rotate_video: filter and command *)

\* f"{custom_angle}" for None, an infinite float, an int and a float with an
\* integral value.
FormatAngle(angle) ==
    IF ~angle.some THEN "None"
    ELSE IF "inf" \in DOMAIN angle THEN "inf"
    ELSE IF angle.float THEN ToString(angle.val) \o ".0"
    ELSE ToString(angle.val)

\* Mutation of RotationMap: the filters of "90" and "270" are exchanged.
RotationMapExchanged(key) ==
    CASE key = "90" -> "transpose=2"
      [] key = "180" -> "transpose=2,transpose=2"
      [] key = "270" -> "transpose=1"

\* rotation_map
RotationMapKeys == { "90", "180", "270" }
RotationMap(key) ==
    CASE key = "90" -> "transpose=1"
      [] key = "180" -> "transpose=2,transpose=2"
      [] key = "270" -> "transpose=2"

\* The filter of rotate_video: a dictionary lookup for every selection other
\* than "custom" (a KeyError when the selection is no key), the rotate filter
\* for "custom".
FilterOption(rot, angle) ==
    IF rot # Some("custom")
    THEN IF rot.some /\ rot.val \in RotationMapKeys
         THEN [ok |-> TRUE, val |-> RotationMap(rot.val)]
         ELSE [ok |-> FALSE, val |-> "KeyError"]
    ELSE [ok |-> TRUE, val |-> "rotate=" \o FormatAngle(angle) \o "*(PI/180):bilinear=0"]

\* Mutation of FFmpegResolved: the result of shutil.which is not looked at.
FFmpegResolvedUnchecked == TRUE

\* check_ffmpeg / get_ffmpeg_path: "if ffmpeg_path" - a path was found.
FFmpegResolved == TruthySeq(ffmpeg_path)

\* One subprocess.run of the command built by rotate_video, with its exit status.
Run(input_path, filter_option, output_path, status) ==
    [input |-> input_path, filter |-> filter_option, output |-> output_path,
     exit |-> status]

\* e.stderr of a failed run: the transcoder names the input it could not process.
Stderr(input_path) == input_path \o <<": Invalid data found when processing input">>

\* f"Error: {e.stderr.decode()}"
ErrorString(input_path) == <<"Error: ">> \o Stderr(input_path)

\* output_file.startswith("Error")
IsErrorString(s) == s # <<>> /\ s[1] = "Error: "

\* os.makedirs(d, exist_ok=True): d and every missing ancestor.
makedirs(ds, d) ==
    ds \cup { SubSeq(d, 1, k) : k \in { n \in 1..Len(d) : n = Len(d) \/ d[n + 1] = SEP } }

-----------------------------------------------------------------------------
(* batch_rotate_videos (ffrotate.py) *)

\* Mutation of Validation: the output directory is not checked.
ValidationSkipsOutputDir(inputs, rot, angle, outdir) ==
    IF inputs = <<>> THEN "Error: No files uploaded."
    ELSE IF rot = Some("custom") /\ ~TruthyNum(angle) THEN "Error: Please provide a custom angle."
    ELSE "ok"

\* The three checks at the head of batch_rotate_videos, in order.
Validation(inputs, rot, angle, outdir) ==
    IF inputs = <<>> THEN "Error: No files uploaded."
    ELSE IF rot = Some("custom") /\ ~TruthyNum(angle) THEN "Error: Please provide a custom angle."
    ELSE IF ~TruthySeq(outdir) THEN "Error: Please specify an output directory."
    ELSE "ok"

\* Mutation of ProgressValue: the fraction of items done after this one.
ProgressValueAfterItem(index, total) == [num |-> index + 1, den |-> total]

\* progress(i / total_videos)
ProgressValue(index, total) == [num |-> index, den |-> total]

Pending == [kind |-> "pending", val |-> ""]
Returned(v) == [kind |-> "returned", val |-> v]
Raised(e) == [kind |-> "raised", val |-> e]
Dialog(k, msg) == [kind |-> k, val |-> msg]

Init ==
    /\ pc = "idle"
    /\ variant = ""
    /\ input_videos = <<>>
    /\ rotation = NoneStr
    /\ custom_angle = NoneNum
    /\ output_dir = NonePath
    /\ tmpdir = <<>>
    /\ i = 0
    /\ moved = 0
    /\ output_files = <<>>
    /\ progressLog = <<>>
    /\ pbar = 0
    /\ invoked = <<>>
    /\ files = InitialFiles
    /\ dirs = InitialDirs
    /\ ffmpeg_path \in { Some(<<"usr", SEP, "bin", SEP, "ffmpeg">>), NonePath }
    /\ frozen \in BOOLEAN
    /\ bundled_ffmpeg \in BOOLEAN
    /\ ~frozen => ~bundled_ffmpeg
    /\ angle_text = "0.0"
    /\ preview_runs = <<>>
    /\ result = Pending

\* The call's arguments.
Bind(v, inputs, rot, angle, outdir) ==
    /\ variant' = v
    /\ input_videos' = inputs
    /\ rotation' = rot
    /\ custom_angle' = angle
    /\ output_dir' = outdir

\* A validation failure returns its message; nothing else has happened.
BatchRejected ==
    /\ pc = "idle"
    /\ \E inputs \in InputLists, rot \in RotationChoices, angle \in AngleChoices,
          outdir \in OutputDirChoices :
           /\ Bind("gradio", inputs, rot, angle, outdir)
           /\ Validation(inputs, rot, angle, outdir) # "ok"
           /\ result' = Returned(Validation(inputs, rot, angle, outdir))
           /\ pc' = "done"
           /\ UNCHANGED <<tmpdir, i, moved, output_files, progressLog, pbar, invoked, files, dirs, ffmpeg_path, frozen, bundled_ffmpeg, angle_text, preview_runs>>

\* Path(output_dir).mkdir() raises: the parent is missing, or the path exists
\* and is no directory.
BatchMkdirRaises ==
    /\ pc = "idle"
    /\ \E inputs \in InputLists, rot \in RotationChoices, angle \in AngleChoices,
          outdir \in OutputDirChoices :
           /\ Bind("gradio", inputs, rot, angle, outdir)
           /\ Validation(inputs, rot, angle, outdir) = "ok"
           /\ ~isdir(outdir.val)
           /\ MkdirError(outdir.val) # "ok"
           /\ result' = Raised(MkdirError(outdir.val))
           /\ pc' = "done"
           /\ UNCHANGED <<tmpdir, i, moved, output_files, progressLog, pbar, invoked, files, dirs, ffmpeg_path, frozen, bundled_ffmpeg, angle_text, preview_runs>>

\* Validation passed, the output directory exists or was just made, and the
\* with block is entered: the staging directory exists.
BatchEnter ==
    /\ pc = "idle"
    /\ \E inputs \in InputLists, rot \in RotationChoices, angle \in AngleChoices,
          outdir \in OutputDirChoices :
           /\ Bind("gradio", inputs, rot, angle, outdir)
           /\ Validation(inputs, rot, angle, outdir) = "ok"
           /\ isdir(outdir.val) \/ MkdirError(outdir.val) = "ok"
           /\ dirs' = dirs \cup { outdir.val, TmpDir }
           /\ tmpdir' = TmpDir
           /\ pc' = "progress"
           /\ UNCHANGED <<i, moved, output_files, progressLog, pbar, invoked, files, ffmpeg_path, frozen, bundled_ffmpeg, angle_text, preview_runs, result>>

\* progress(i / total_videos), before rotate_video is called for item i.
BatchProgress ==
    /\ pc = "progress"
    /\ progressLog' = Append(progressLog, ProgressValue(i, Len(input_videos)))
    /\ pc' = "rotate"
    /\ UNCHANGED <<variant, input_videos, rotation, custom_angle, output_dir, tmpdir, i,
                   moved, output_files, pbar, invoked, files, dirs, ffmpeg_path, frozen, bundled_ffmpeg, angle_text, preview_runs, result>>

\* Mutation of LeaveWith: the staging directory is removed on the normal
\* path only.
LeaveWithStagingKept(res) ==
    /\ files' = files
    /\ dirs' = dirs
    /\ result' = res
    /\ pc' = "done"

\* An exception leaves the with block: the staging directory is removed on
\* the way out and the exception reaches the caller.
LeaveWith(res) ==
    /\ files' = RemoveTree(files, tmpdir)
    /\ dirs' = dirs \ {tmpdir}
    /\ result' = res
    /\ pc' = "done"

\* After item i: the next item, or the second loop.
AfterItem == IF i + 1 = Len(input_videos) THEN "finalize" ELSE "progress"

\* rotate_video, check_ffmpeg raises: shutil.which found no ffmpeg.
RotateNoFFmpeg ==
    /\ pc = "rotate"
    /\ ~FFmpegResolved
    /\ LeaveWith(Raised("RuntimeError"))
    /\ UNCHANGED <<variant, input_videos, rotation, custom_angle, output_dir, tmpdir, i,
                   moved, output_files, progressLog, pbar, invoked, ffmpeg_path, frozen, bundled_ffmpeg, angle_text, preview_runs>>

\* rotate_video, rotation_map[rotation] raises KeyError.
RotateKeyError ==
    /\ pc = "rotate"
    /\ FFmpegResolved
    /\ ~FilterOption(rotation, custom_angle).ok
    /\ LeaveWith(Raised("KeyError"))
    /\ UNCHANGED <<variant, input_videos, rotation, custom_angle, output_dir, tmpdir, i,
                   moved, output_files, progressLog, pbar, invoked, ffmpeg_path, frozen, bundled_ffmpeg, angle_text, preview_runs>>

\* rotate_video, the transcoder exits 0: the output is written (replacing a
\* file of that name, -y) and its path is returned and appended.
RotateSucceeds ==
    /\ pc = "rotate"
    /\ FFmpegResolved
    /\ FilterOption(rotation, custom_angle).ok
    /\ LET input_video == InputPath(input_videos[i + 1])
           filter_option == FilterOption(rotation, custom_angle).val
           output_path == join(tmpdir, OutputFilename(input_video))
       IN  /\ input_video \in DOMAIN files
           /\ invoked' = Append(invoked, Run(input_video, filter_option, output_path, 0))
           /\ files' = WriteFile(files, output_path,
                                 Rotated(input_video, filter_option, files[input_video]))
           /\ dirs' = makedirs(dirs, tmpdir)
           /\ output_files' = Append(output_files, output_path)
    /\ i' = i + 1
    /\ pc' = AfterItem
    /\ UNCHANGED <<variant, input_videos, rotation, custom_angle, output_dir, tmpdir,
                   moved, progressLog, pbar, ffmpeg_path, frozen, bundled_ffmpeg, angle_text, preview_runs, result>>

\* rotate_video, the transcoder exits non-zero: the error string is returned
\* and appended.  The run may have left a partial output behind.
RotateFails ==
    /\ pc = "rotate"
    /\ FFmpegResolved
    /\ FilterOption(rotation, custom_angle).ok
    /\ LET input_video == InputPath(input_videos[i + 1])
           filter_option == FilterOption(rotation, custom_angle).val
           output_path == join(tmpdir, OutputFilename(input_video))
       IN  /\ invoked' = Append(invoked, Run(input_video, filter_option, output_path, 1))
           /\ \/ files' = files
              \/ /\ input_video \in DOMAIN files
                 /\ files' = WriteFile(files, output_path,
                                       Partial(input_video, filter_option, files[input_video]))
           /\ dirs' = makedirs(dirs, tmpdir)
           /\ output_files' = Append(output_files, ErrorString(input_video))
    /\ i' = i + 1
    /\ pc' = AfterItem
    /\ UNCHANGED <<variant, input_videos, rotation, custom_angle, output_dir, tmpdir,
                   moved, progressLog, pbar, ffmpeg_path, frozen, bundled_ffmpeg, angle_text, preview_runs, result>>

\* The source and the destination of the next shutil.move of the second loop.
MoveSrc == output_files[moved + 1]
MoveDst == join(output_dir.val, basename(output_files[moved + 1]))

\* shutil.move raises: the source does not exist (an error string, or a
\* staged file that an earlier move already took), or the file system
\* refuses.  The exception leaves the loop and the with block.
MoveRaises ==
    /\ pc = "finalize"
    /\ \/ /\ MoveSrc \notin DOMAIN files
          /\ LeaveWith(Raised("FileNotFoundError"))
       \/ /\ MoveSrc \in DOMAIN files
          /\ LeaveWith(Raised("OSError"))
    /\ UNCHANGED <<variant, input_videos, rotation, custom_angle, output_dir, tmpdir, i,
                   moved, output_files, progressLog, pbar, invoked, ffmpeg_path, frozen, bundled_ffmpeg, angle_text, preview_runs>>

\* shutil.move succeeds; after the last one the with block ends, the staging
\* directory is removed and the function returns None.
MoveSucceeds ==
    /\ pc = "finalize"
    /\ MoveSrc \in DOMAIN files
    /\ moved' = moved + 1
    /\ IF moved + 1 = Len(output_files)
       THEN /\ files' = RemoveTree(MoveFile(files, MoveSrc, MoveDst), tmpdir)
            /\ dirs' = dirs \ {tmpdir}
            /\ result' = Returned("None")
            /\ pc' = "done"
       ELSE /\ files' = MoveFile(files, MoveSrc, MoveDst)
            /\ UNCHANGED <<dirs, result, pc>>
    /\ UNCHANGED <<variant, input_videos, rotation, custom_angle, output_dir, tmpdir, i,
                   output_files, progressLog, pbar, invoked, ffmpeg_path, frozen, bundled_ffmpeg, angle_text, preview_runs>>

-----------------------------------------------------------------------------
(* FFRotateApp.process_videos (jlp-rotate.py) *)

\* The file dialog yields path strings; the combobox is read-only and starts
\* at "90"; the output folder is an entry's text.
JlpInputLists == { [k \in DOMAIN s |-> Str(InputPath(s[k]))] : s \in InputLists }
JlpRotationChoices == { Some("90"), Some("180"), Some("270"), Some("custom") }
JlpOutputDirChoices == { o \in OutputDirChoices : o.some }

\* What the custom angle entry can hold: it starts at "0.0" and takes any text.
AngleTexts == { "0.0", "45", "inf", "", "abc" }

\* The text read as a floating-point number (Tcl's double, Python's float()):
\* a value, or no value when the text is no number.
ParseFloat(text) ==
    CASE text = "0.0" -> [ok |-> TRUE, val |-> FloatNum(0)]
      [] text = "45" -> [ok |-> TRUE, val |-> FloatNum(45)]
      [] text = "inf" -> [ok |-> TRUE, val |-> InfNum]
      [] OTHER -> [ok |-> FALSE, val |-> NoneNum]

\* custom_angle_var.get() of a tk.DoubleVar: raises TclError when not ok.
DoubleVarGet(text) == ParseFloat(text)

\* get_ffmpeg_path of jlp-rotate.py: in a PyInstaller bundle the path under
\* sys._MEIPASS, whether or not a file is there; otherwise what shutil.which
\* finds, and RuntimeError when it finds nothing.
BundledFFmpeg == <<"_MEIPASS", SEP, "ffmpeg", SEP, "ffmpeg">>
JlpFFmpegPath == IF frozen THEN Some(BundledFFmpeg) ELSE ffmpeg_path
JlpFFmpegResolved == TruthySeq(JlpFFmpegPath)

\* subprocess.run can start the executable at JlpFFmpegPath: a path found by
\* shutil.which is an executable file, the bundled path need not be one.
JlpFFmpegRunnable == frozen => bundled_ffmpeg

\* The widgets' values at the time of the click; custom_angle is what the
\* angle entry yields as a number (unset when it yields none).
BindEntry(v, inputs, rot, text, outdir) ==
    /\ Bind(v, inputs, rot, DoubleVarGet(text).val, outdir)
    /\ angle_text' = text

\* The two checks at the head of process_videos, in order.
JlpValidation(inputs, outdir) ==
    IF inputs = <<>> THEN "Please select input video files."
    ELSE IF ~isdir(outdir.val) THEN "Invalid output directory."
    ELSE "ok"

JlpRejected ==
    /\ pc = "idle"
    /\ \E inputs \in JlpInputLists, rot \in JlpRotationChoices, text \in AngleTexts,
          outdir \in JlpOutputDirChoices :
           /\ BindEntry("jlp", inputs, rot, text, outdir)
           /\ JlpValidation(inputs, outdir) # "ok"
           /\ result' = Dialog("showerror", JlpValidation(inputs, outdir))
           /\ pc' = "done"
           /\ UNCHANGED <<tmpdir, i, moved, output_files, progressLog, pbar, invoked, files, dirs,
                          ffmpeg_path, frozen, bundled_ffmpeg, preview_runs>>

JlpEnter ==
    /\ pc = "idle"
    /\ \E inputs \in JlpInputLists, rot \in JlpRotationChoices, text \in AngleTexts,
          outdir \in JlpOutputDirChoices :
           /\ BindEntry("jlp", inputs, rot, text, outdir)
           /\ JlpValidation(inputs, outdir) = "ok"
           /\ pc' = "jlp_rotate"
           /\ UNCHANGED <<tmpdir, i, moved, output_files, progressLog, pbar, invoked, files, dirs,
                          ffmpeg_path, frozen, bundled_ffmpeg, preview_runs, result>>

\* self.custom_angle_var.get() raises TclError while the arguments of the
\* rotate_video call are evaluated; process_videos catches it and shows it.
JlpAngleError ==
    /\ pc = "jlp_rotate"
    /\ ~DoubleVarGet(angle_text).ok
    /\ result' = Dialog("showerror", "TclError")
    /\ pc' = "done"
    /\ UNCHANGED <<variant, input_videos, rotation, custom_angle, output_dir, tmpdir, i,
                   moved, output_files, progressLog, pbar, invoked, files, dirs, ffmpeg_path,
                   frozen, bundled_ffmpeg, angle_text, preview_runs>>

\* rotate_video, get_ffmpeg_path raises; process_videos catches it and shows it.
JlpNoFFmpeg ==
    /\ pc = "jlp_rotate"
    /\ DoubleVarGet(angle_text).ok
    /\ ~JlpFFmpegResolved
    /\ result' = Dialog("showerror", "FFmpeg not found.")
    /\ pc' = "done"
    /\ UNCHANGED <<variant, input_videos, rotation, custom_angle, output_dir, tmpdir, i,
                   moved, output_files, progressLog, pbar, invoked, files, dirs, ffmpeg_path,
                   frozen, bundled_ffmpeg, angle_text, preview_runs>>

\* rotate_video, subprocess.run finds no executable at the bundled path and
\* raises FileNotFoundError; process_videos catches it and shows it.
JlpExecFails ==
    /\ pc = "jlp_rotate"
    /\ DoubleVarGet(angle_text).ok
    /\ JlpFFmpegResolved
    /\ ~JlpFFmpegRunnable
    /\ result' = Dialog("showerror", "FileNotFoundError")
    /\ pc' = "done"
    /\ UNCHANGED <<variant, input_videos, rotation, custom_angle, output_dir, tmpdir, i,
                   moved, output_files, progressLog, pbar, invoked, files, dirs, ffmpeg_path,
                   frozen, bundled_ffmpeg, angle_text, preview_runs>>

\* rotate_video, the transcoder exits non-zero: subprocess.run(check=True)
\* raises CalledProcessError, which ends the loop.
JlpRotateFails ==
    /\ pc = "jlp_rotate"
    /\ DoubleVarGet(angle_text).ok
    /\ JlpFFmpegResolved
    /\ JlpFFmpegRunnable
    /\ LET input_path == InputPath(input_videos[i + 1])
           filter_option == FilterOption(rotation, custom_angle).val
           output_path == join(output_dir.val, OutputFilename(input_path))
       IN  /\ invoked' = Append(invoked, Run(input_path, filter_option, output_path, 1))
           /\ \/ files' = files
              \/ /\ input_path \in DOMAIN files
                 /\ files' = WriteFile(files, output_path,
                                       Partial(input_path, filter_option, files[input_path]))
    /\ result' = Dialog("showerror", "CalledProcessError")
    /\ pc' = "done"
    /\ UNCHANGED <<variant, input_videos, rotation, custom_angle, output_dir, tmpdir, i,
                   moved, output_files, progressLog, pbar, dirs, ffmpeg_path,
                   frozen, bundled_ffmpeg, angle_text, preview_runs>>

\* rotate_video, the transcoder exits 0; pbar.update(1); after the last item
\* the success dialog.
JlpRotateSucceeds ==
    /\ pc = "jlp_rotate"
    /\ DoubleVarGet(angle_text).ok
    /\ JlpFFmpegResolved
    /\ JlpFFmpegRunnable
    /\ LET input_path == InputPath(input_videos[i + 1])
           filter_option == FilterOption(rotation, custom_angle).val
           output_path == join(output_dir.val, OutputFilename(input_path))
       IN  /\ input_path \in DOMAIN files
           /\ invoked' = Append(invoked, Run(input_path, filter_option, output_path, 0))
           /\ files' = WriteFile(files, output_path,
                                 Rotated(input_path, filter_option, files[input_path]))
    /\ pbar' = pbar + 1
    /\ i' = i + 1
    /\ IF i + 1 = Len(input_videos)
       THEN /\ result' = Dialog("showinfo", "Success")
            /\ pc' = "done"
       ELSE UNCHANGED <<result, pc>>
    /\ UNCHANGED <<variant, input_videos, rotation, custom_angle, output_dir, tmpdir,
                   moved, output_files, progressLog, dirs, ffmpeg_path,
                   frozen, bundled_ffmpeg, angle_text, preview_runs>>

-----------------------------------------------------------------------------
(* FFRotateApp.process_videos (tkrotate.py) *)

\* The same widgets as jlp-rotate.py; there is no progress bar, and ffmpeg is
\* looked up with shutil.which only.
TkRejected ==
    /\ pc = "idle"
    /\ \E inputs \in JlpInputLists, rot \in JlpRotationChoices, text \in AngleTexts,
          outdir \in JlpOutputDirChoices :
           /\ BindEntry("tk", inputs, rot, text, outdir)
           /\ JlpValidation(inputs, outdir) # "ok"
           /\ result' = Dialog("showerror", JlpValidation(inputs, outdir))
           /\ pc' = "done"
           /\ UNCHANGED <<tmpdir, i, moved, output_files, progressLog, pbar, invoked, files, dirs,
                          ffmpeg_path, frozen, bundled_ffmpeg, preview_runs>>

TkEnter ==
    /\ pc = "idle"
    /\ \E inputs \in JlpInputLists, rot \in JlpRotationChoices, text \in AngleTexts,
          outdir \in JlpOutputDirChoices :
           /\ BindEntry("tk", inputs, rot, text, outdir)
           /\ JlpValidation(inputs, outdir) = "ok"
           /\ pc' = "tk_rotate"
           /\ UNCHANGED <<tmpdir, i, moved, output_files, progressLog, pbar, invoked, files, dirs,
                          ffmpeg_path, frozen, bundled_ffmpeg, preview_runs, result>>

\* self.custom_angle_var.get() raises TclError while the arguments of the
\* rotate_video call are evaluated.
TkAngleError ==
    /\ pc = "tk_rotate"
    /\ ~DoubleVarGet(angle_text).ok
    /\ result' = Dialog("showerror", "TclError")
    /\ pc' = "done"
    /\ UNCHANGED <<variant, input_videos, rotation, custom_angle, output_dir, tmpdir, i,
                   moved, output_files, progressLog, pbar, invoked, files, dirs, ffmpeg_path,
                   frozen, bundled_ffmpeg, angle_text, preview_runs>>

\* rotate_video raises RuntimeError: shutil.which found no ffmpeg.
TkNoFFmpeg ==
    /\ pc = "tk_rotate"
    /\ DoubleVarGet(angle_text).ok
    /\ ~FFmpegResolved
    /\ result' = Dialog("showerror", "FFmpeg not found.")
    /\ pc' = "done"
    /\ UNCHANGED <<variant, input_videos, rotation, custom_angle, output_dir, tmpdir, i,
                   moved, output_files, progressLog, pbar, invoked, files, dirs, ffmpeg_path,
                   frozen, bundled_ffmpeg, angle_text, preview_runs>>

\* rotate_video, the transcoder exits non-zero: subprocess.run(check=True)
\* raises CalledProcessError, which ends the loop.
TkRotateFails ==
    /\ pc = "tk_rotate"
    /\ DoubleVarGet(angle_text).ok
    /\ FFmpegResolved
    /\ LET input_path == InputPath(input_videos[i + 1])
           filter_option == FilterOption(rotation, custom_angle).val
           output_path == join(output_dir.val, OutputFilename(input_path))
       IN  /\ invoked' = Append(invoked, Run(input_path, filter_option, output_path, 1))
           /\ \/ files' = files
              \/ /\ input_path \in DOMAIN files
                 /\ files' = WriteFile(files, output_path,
                                       Partial(input_path, filter_option, files[input_path]))
    /\ result' = Dialog("showerror", "CalledProcessError")
    /\ pc' = "done"
    /\ UNCHANGED <<variant, input_videos, rotation, custom_angle, output_dir, tmpdir, i,
                   moved, output_files, progressLog, pbar, dirs, ffmpeg_path,
                   frozen, bundled_ffmpeg, angle_text, preview_runs>>

\* rotate_video, the transcoder exits 0: the output is written into the
\* output directory at once (-y replaces a file of that name); after the
\* last item the success dialog.
TkRotateSucceeds ==
    /\ pc = "tk_rotate"
    /\ DoubleVarGet(angle_text).ok
    /\ FFmpegResolved
    /\ LET input_path == InputPath(input_videos[i + 1])
           filter_option == FilterOption(rotation, custom_angle).val
           output_path == join(output_dir.val, OutputFilename(input_path))
       IN  /\ input_path \in DOMAIN files
           /\ invoked' = Append(invoked, Run(input_path, filter_option, output_path, 0))
           /\ files' = WriteFile(files, output_path,
                                 Rotated(input_path, filter_option, files[input_path]))
    /\ i' = i + 1
    /\ IF i + 1 = Len(input_videos)
       THEN /\ result' = Dialog("showinfo", "Success")
            /\ pc' = "done"
       ELSE UNCHANGED <<result, pc>>
    /\ UNCHANGED <<variant, input_videos, rotation, custom_angle, output_dir, tmpdir,
                   moved, output_files, progressLog, pbar, dirs, ffmpeg_path,
                   frozen, bundled_ffmpeg, angle_text, preview_runs>>

-----------------------------------------------------------------------------
(* FFRotateApp.process_videos (jlp-rotate-pyside.py) *)

\* The widgets' values at the time of the click; the angle is the text of the
\* QLineEdit, converted with float(...) when rotate_video is called.
BindLineEdit(inputs, rot, text, outdir) ==
    /\ Bind("pyside", inputs, rot, ParseFloat(text).val, outdir)
    /\ angle_text' = text

\* The two checks at the head of process_videos, with QMessageBox.critical.
PysideRejected ==
    /\ pc = "idle"
    /\ \E inputs \in JlpInputLists, rot \in JlpRotationChoices, text \in AngleTexts,
          outdir \in JlpOutputDirChoices :
           /\ BindLineEdit(inputs, rot, text, outdir)
           /\ JlpValidation(inputs, outdir) # "ok"
           /\ result' = Dialog("critical", JlpValidation(inputs, outdir))
           /\ pc' = "done"
           /\ UNCHANGED <<tmpdir, i, moved, output_files, progressLog, pbar, invoked, files, dirs,
                          ffmpeg_path, frozen, bundled_ffmpeg, preview_runs>>

PysideEnter ==
    /\ pc = "idle"
    /\ \E inputs \in JlpInputLists, rot \in JlpRotationChoices, text \in AngleTexts,
          outdir \in JlpOutputDirChoices :
           /\ BindLineEdit(inputs, rot, text, outdir)
           /\ JlpValidation(inputs, outdir) = "ok"
           /\ pc' = "pyside_rotate"
           /\ UNCHANGED <<tmpdir, i, moved, output_files, progressLog, pbar, invoked, files, dirs,
                          ffmpeg_path, frozen, bundled_ffmpeg, preview_runs, result>>

\* float(self.custom_angle_edit.text()) raises ValueError while the arguments
\* of the rotate_video call are evaluated; nothing guards it but the except
\* of process_videos.
PysideAngleError ==
    /\ pc = "pyside_rotate"
    /\ ~ParseFloat(angle_text).ok
    /\ result' = Dialog("critical", "ValueError")
    /\ pc' = "done"
    /\ UNCHANGED <<variant, input_videos, rotation, custom_angle, output_dir, tmpdir, i,
                   moved, output_files, progressLog, pbar, invoked, files, dirs, ffmpeg_path,
                   frozen, bundled_ffmpeg, angle_text, preview_runs>>

\* get_ffmpeg_path (shutil.which only) raises RuntimeError in rotate_video.
PysideNoFFmpeg ==
    /\ pc = "pyside_rotate"
    /\ ParseFloat(angle_text).ok
    /\ ~FFmpegResolved
    /\ result' = Dialog("critical", "FFmpeg not found.")
    /\ pc' = "done"
    /\ UNCHANGED <<variant, input_videos, rotation, custom_angle, output_dir, tmpdir, i,
                   moved, output_files, progressLog, pbar, invoked, files, dirs, ffmpeg_path,
                   frozen, bundled_ffmpeg, angle_text, preview_runs>>

\* rotate_video, the transcoder exits non-zero: subprocess.run(check=True)
\* raises CalledProcessError, which ends the loop.
PysideRotateFails ==
    /\ pc = "pyside_rotate"
    /\ ParseFloat(angle_text).ok
    /\ FFmpegResolved
    /\ LET input_path == InputPath(input_videos[i + 1])
           filter_option == FilterOption(rotation, custom_angle).val
           output_path == join(output_dir.val, OutputFilename(input_path))
       IN  /\ invoked' = Append(invoked, Run(input_path, filter_option, output_path, 1))
           /\ \/ files' = files
              \/ /\ input_path \in DOMAIN files
                 /\ files' = WriteFile(files, output_path,
                                       Partial(input_path, filter_option, files[input_path]))
    /\ result' = Dialog("critical", "CalledProcessError")
    /\ pc' = "done"
    /\ UNCHANGED <<variant, input_videos, rotation, custom_angle, output_dir, tmpdir, i,
                   moved, output_files, progressLog, pbar, dirs, ffmpeg_path,
                   frozen, bundled_ffmpeg, angle_text, preview_runs>>

\* rotate_video, the transcoder exits 0: the output is written into the
\* output directory at once; after the last item QMessageBox.information.
\* The tqdm of the loop writes to the console only.
PysideRotateSucceeds ==
    /\ pc = "pyside_rotate"
    /\ ParseFloat(angle_text).ok
    /\ FFmpegResolved
    /\ LET input_path == InputPath(input_videos[i + 1])
           filter_option == FilterOption(rotation, custom_angle).val
           output_path == join(output_dir.val, OutputFilename(input_path))
       IN  /\ input_path \in DOMAIN files
           /\ invoked' = Append(invoked, Run(input_path, filter_option, output_path, 0))
           /\ files' = WriteFile(files, output_path,
                                 Rotated(input_path, filter_option, files[input_path]))
    /\ i' = i + 1
    /\ IF i + 1 = Len(input_videos)
       THEN /\ result' = Dialog("information", "Success")
            /\ pc' = "done"
       ELSE UNCHANGED <<result, pc>>
    /\ UNCHANGED <<variant, input_videos, rotation, custom_angle, output_dir, tmpdir,
                   moved, output_files, progressLog, pbar, dirs, ffmpeg_path,
                   frozen, bundled_ffmpeg, angle_text, preview_runs>>

-----------------------------------------------------------------------------
(* rotate_video (ffrotate.py), called on its own *)

CallAngleChoices == AngleChoices \cup { FloatNum(45), InfNum }
CallOutputDirChoices == { o \in OutputDirChoices : TruthySeq(o) }

\* One call rotate_video(input_video, rotation, custom_angle, output_dir):
\* check_ffmpeg, os.makedirs, the filter, the command, the run.  It raises
\* when ffmpeg is not found or the rotation is no key of rotation_map, and
\* returns the output path or the error string otherwise.
RotateVideoCall ==
    /\ pc = "idle"
    /\ \E input_video \in InputChoices, rot \in RotationChoices, angle \in CallAngleChoices,
          outdir \in CallOutputDirChoices :
           /\ Bind("rotate_video", <<input_video>>, rot, angle, outdir)
           /\ IF ~FFmpegResolved
              THEN /\ result' = Raised("RuntimeError")
                   /\ UNCHANGED <<invoked, files, dirs>>
              ELSE IF ~FilterOption(rot, angle).ok
              THEN /\ dirs' = makedirs(dirs, outdir.val)
                   /\ result' = Raised("KeyError")
                   /\ UNCHANGED <<invoked, files>>
              ELSE LET input_path == InputPath(input_video)
                       filter_option == FilterOption(rot, angle).val
                       output_path == join(outdir.val, OutputFilename(input_path))
                   IN  /\ dirs' = makedirs(dirs, outdir.val)
                       /\ \/ /\ invoked' = <<Run(input_path, filter_option, output_path, 0)>>
                             /\ files' = WriteFile(files, output_path,
                                                   Rotated(input_path, filter_option,
                                                           files[input_path]))
                             /\ result' = Returned("output_path")
                          \/ /\ invoked' = <<Run(input_path, filter_option, output_path, 1)>>
                             /\ \/ files' = files
                                \/ files' = WriteFile(files, output_path,
                                                      Partial(input_path, filter_option,
                                                              files[input_path]))
                             /\ result' = Returned("Error: stderr")
    /\ pc' = "done"
    /\ UNCHANGED <<tmpdir, i, moved, output_files, progressLog, pbar, ffmpeg_path, frozen, bundled_ffmpeg, angle_text, preview_runs>>

-----------------------------------------------------------------------------
(* FFRotateApp.show_preview and extract_rotated_frame (jlp-rotate.py) *)

\* tempfile.NamedTemporaryFile(suffix=".png", delete=False).name
TempFrame == <<"tmpframe", DOT, "png">>

Empty == [kind |-> "empty", of |-> <<>>, by |-> "", from |-> ""]
Frame(p, f, c) == [kind |-> "frame", of |-> p, by |-> f, from |-> c.kind]

\* What the probe finds after "Duration: " on the transcoder's stderr:
\* nothing, or hours, minutes and seconds (the seconds in hundredths).
DurationChoices == { [some |-> FALSE, val |-> <<0, 0, 0>>], Some(<<0, 0, 0>>), Some(<<0, 1, 3050>>) }

\* get_video_duration: h * 3600 + m * 60 + s, here in hundredths of a second.
get_video_duration(d) ==
    IF ~d.some THEN [ok |-> FALSE, val |-> 0]
    ELSE [ok |-> TRUE, val |-> (d.val[1] * 3600 + d.val[2] * 60) * 100 + d.val[3]]

\* seek_time = duration / 2, in seconds.
SeekTime(duration) == [num |-> duration, den |-> 200]

\* The two commands of the preview path.
ProbeRun(input_path) ==
    [kind |-> "probe", seek |-> [num |-> 0, den |-> 1], input |-> input_path,
     filter |-> "", output |-> <<>>, exit |-> 0]
FrameRun(seek_time, input_path, filter_option, output_path, status) ==
    [kind |-> "frame", seek |-> seek_time, input |-> input_path,
     filter |-> filter_option, output |-> output_path, exit |-> status]

\* extract_rotated_frame up to and including its subprocess.run: the probe,
\* the temporary file, the frame command with its exit status, and what the
\* transcoder left in the temporary file.
ExtractRotatedFrame(input_path, rot, angle, d, status, content) ==
    /\ preview_runs' = <<ProbeRun(input_path),
                         FrameRun(SeekTime(get_video_duration(d).val), input_path,
                                  FilterOption(rot, angle).val, TempFrame, status)>>
    /\ files' = WriteFile(files, TempFrame, content)

\* The text of the angle entry is no number: custom_angle_var.get() raises
\* TclError before extract_rotated_frame is called.
PreviewAngleError ==
    /\ pc = "idle"
    /\ \E inputs \in JlpInputLists, rot \in JlpRotationChoices, text \in AngleTexts :
           /\ inputs # <<>>
           /\ ~DoubleVarGet(text).ok
           /\ BindEntry("jlp_preview", inputs, rot, text, NonePath)
    /\ result' = Dialog("showerror", "Failed to generate preview: TclError")
    /\ pc' = "done"
    /\ UNCHANGED <<tmpdir, i, moved, output_files, progressLog, pbar, invoked, files, dirs,
                   ffmpeg_path, frozen, bundled_ffmpeg, preview_runs>>

PreviewNoFiles ==
    /\ pc = "idle"
    /\ \E rot \in JlpRotationChoices, text \in AngleTexts :
           BindEntry("jlp_preview", <<>>, rot, text, NonePath)
    /\ result' = Dialog("showerror", "Please select at least one video file.")
    /\ pc' = "done"
    /\ UNCHANGED <<tmpdir, i, moved, output_files, progressLog, pbar, invoked, files, dirs,
                   ffmpeg_path, frozen, bundled_ffmpeg, preview_runs>>

\* get_ffmpeg_path raises in extract_rotated_frame.
PreviewNoFFmpeg ==
    /\ pc = "idle"
    /\ ~JlpFFmpegResolved
    /\ \E inputs \in JlpInputLists, rot \in JlpRotationChoices, text \in AngleTexts :
           /\ inputs # <<>>
           /\ DoubleVarGet(text).ok
           /\ BindEntry("jlp_preview", inputs, rot, text, NonePath)
    /\ result' = Dialog("showerror", "Failed to generate preview: FFmpeg not found.")
    /\ pc' = "done"
    /\ UNCHANGED <<tmpdir, i, moved, output_files, progressLog, pbar, invoked, files, dirs,
                   ffmpeg_path, frozen, bundled_ffmpeg, preview_runs>>

\* The subprocess.run of get_video_duration finds no executable at the
\* bundled path and raises FileNotFoundError.  No temporary file exists yet.
PreviewExecFails ==
    /\ pc = "idle"
    /\ JlpFFmpegResolved
    /\ ~JlpFFmpegRunnable
    /\ \E inputs \in JlpInputLists, rot \in JlpRotationChoices, text \in AngleTexts :
           /\ inputs # <<>>
           /\ DoubleVarGet(text).ok
           /\ BindEntry("jlp_preview", inputs, rot, text, NonePath)
    /\ result' = Dialog("showerror", "Failed to generate preview: FileNotFoundError")
    /\ pc' = "done"
    /\ UNCHANGED <<tmpdir, i, moved, output_files, progressLog, pbar, invoked, files, dirs,
                   ffmpeg_path, frozen, bundled_ffmpeg, preview_runs>>

\* get_video_duration raises: no Duration line.  No temporary file exists yet.
PreviewProbeFails ==
    /\ pc = "idle"
    /\ JlpFFmpegResolved
    /\ JlpFFmpegRunnable
    /\ \E inputs \in JlpInputLists, rot \in JlpRotationChoices, text \in AngleTexts,
          d \in DurationChoices :
           /\ inputs # <<>>
           /\ DoubleVarGet(text).ok
           /\ ~get_video_duration(d).ok
           /\ BindEntry("jlp_preview", inputs, rot, text, NonePath)
           /\ preview_runs' = <<ProbeRun(InputPath(inputs[1]))>>
    /\ result' = Dialog("showerror", "Failed to generate preview: Could not determine video duration.")
    /\ pc' = "done"
    /\ UNCHANGED <<tmpdir, i, moved, output_files, progressLog, pbar, invoked, files, dirs,
                   ffmpeg_path, frozen, bundled_ffmpeg>>

\* The frame command exits non-zero: subprocess.run(check=True) raises in
\* extract_rotated_frame, after the temporary file was created; show_preview
\* catches the exception and shows it.
PreviewExtractFails ==
    /\ pc = "idle"
    /\ JlpFFmpegResolved
    /\ JlpFFmpegRunnable
    /\ \E inputs \in JlpInputLists, rot \in JlpRotationChoices, text \in AngleTexts,
          d \in DurationChoices :
           /\ inputs # <<>>
           /\ DoubleVarGet(text).ok
           /\ get_video_duration(d).ok
           /\ BindEntry("jlp_preview", inputs, rot, text, NonePath)
           /\ ExtractRotatedFrame(InputPath(inputs[1]), rot, DoubleVarGet(text).val, d, 1, Empty)
    /\ result' = Dialog("showerror", "Failed to generate preview: CalledProcessError")
    /\ pc' = "done"
    /\ UNCHANGED <<tmpdir, i, moved, output_files, progressLog, pbar, invoked, dirs,
                   ffmpeg_path, frozen, bundled_ffmpeg>>

\* The frame command exits 0 without having written a frame (a seek at or
\* past the end): Image.open raises, show_preview catches it and shows it.
PreviewLoadFails ==
    /\ pc = "idle"
    /\ JlpFFmpegResolved
    /\ JlpFFmpegRunnable
    /\ \E inputs \in JlpInputLists, rot \in JlpRotationChoices, text \in AngleTexts,
          d \in DurationChoices :
           /\ inputs # <<>>
           /\ DoubleVarGet(text).ok
           /\ get_video_duration(d).ok
           /\ BindEntry("jlp_preview", inputs, rot, text, NonePath)
           /\ ExtractRotatedFrame(InputPath(inputs[1]), rot, DoubleVarGet(text).val, d, 0, Empty)
    /\ result' = Dialog("showerror", "Failed to generate preview: UnidentifiedImageError")
    /\ pc' = "done"
    /\ UNCHANGED <<tmpdir, i, moved, output_files, progressLog, pbar, invoked, dirs,
                   ffmpeg_path, frozen, bundled_ffmpeg>>

\* The frame is extracted and loaded, the preview window is open.
PreviewShown ==
    /\ pc = "idle"
    /\ JlpFFmpegResolved
    /\ JlpFFmpegRunnable
    /\ \E inputs \in JlpInputLists, rot \in JlpRotationChoices, text \in AngleTexts,
          d \in DurationChoices :
           /\ inputs # <<>>
           /\ DoubleVarGet(text).ok
           /\ get_video_duration(d).ok
           /\ BindEntry("jlp_preview", inputs, rot, text, NonePath)
           /\ LET input_path == InputPath(inputs[1])
                  angle == DoubleVarGet(text).val
              IN  ExtractRotatedFrame(input_path, rot, angle, d, 0,
                                      Frame(input_path, FilterOption(rot, angle).val,
                                            files[input_path]))
    /\ pc' = "preview_open"
    /\ UNCHANGED <<tmpdir, i, moved, output_files, progressLog, pbar, invoked, dirs,
                   ffmpeg_path, frozen, bundled_ffmpeg, result>>

\* WM_DELETE_WINDOW: the window is destroyed and the frame file removed.
PreviewClosed ==
    /\ pc = "preview_open"
    /\ variant = "jlp_preview"
    /\ files' = RemoveFile(files, TempFrame)
    /\ result' = Dialog("destroyed", "Preview")
    /\ pc' = "done"
    /\ UNCHANGED <<variant, input_videos, rotation, custom_angle, output_dir, tmpdir, i,
                   moved, output_files, progressLog, pbar, invoked, dirs, ffmpeg_path,
                   frozen, bundled_ffmpeg, angle_text, preview_runs>>

-----------------------------------------------------------------------------
(* FFRotateApp.show_preview (jlp-rotate-pyside.py) *)

\* float(self.custom_angle_edit.text()), 0.0 on ValueError.
PysidePreviewAngle(text) ==
    IF ParseFloat(text).ok THEN ParseFloat(text).val ELSE FloatNum(0)

\* The widgets' values at the time of the click.
PysideBind(inputs, rot, text) ==
    /\ Bind("pyside_preview", inputs, rot, PysidePreviewAngle(text), NonePath)
    /\ angle_text' = text

PysidePreviewNoFiles ==
    /\ pc = "idle"
    /\ \E rot \in JlpRotationChoices, text \in AngleTexts : PysideBind(<<>>, rot, text)
    /\ result' = Dialog("critical", "Please select at least one video file.")
    /\ pc' = "done"
    /\ UNCHANGED <<tmpdir, i, moved, output_files, progressLog, pbar, invoked, files, dirs,
                   ffmpeg_path, frozen, bundled_ffmpeg, preview_runs>>

\* get_ffmpeg_path (shutil.which only) raises in extract_rotated_frame.
PysidePreviewNoFFmpeg ==
    /\ pc = "idle"
    /\ ~FFmpegResolved
    /\ \E inputs \in JlpInputLists, rot \in JlpRotationChoices, text \in AngleTexts :
           /\ inputs # <<>>
           /\ PysideBind(inputs, rot, text)
    /\ result' = Dialog("critical", "Failed to generate preview: FFmpeg not found.")
    /\ pc' = "done"
    /\ UNCHANGED <<tmpdir, i, moved, output_files, progressLog, pbar, invoked, files, dirs,
                   ffmpeg_path, frozen, bundled_ffmpeg, preview_runs>>

PysidePreviewProbeFails ==
    /\ pc = "idle"
    /\ FFmpegResolved
    /\ \E inputs \in JlpInputLists, rot \in JlpRotationChoices, text \in AngleTexts,
          d \in DurationChoices :
           /\ inputs # <<>>
           /\ ~get_video_duration(d).ok
           /\ PysideBind(inputs, rot, text)
           /\ preview_runs' = <<ProbeRun(InputPath(inputs[1]))>>
    /\ result' = Dialog("critical", "Failed to generate preview: Could not determine video duration.")
    /\ pc' = "done"
    /\ UNCHANGED <<tmpdir, i, moved, output_files, progressLog, pbar, invoked, files, dirs,
                   ffmpeg_path, frozen, bundled_ffmpeg>>

PysidePreviewExtractFails ==
    /\ pc = "idle"
    /\ FFmpegResolved
    /\ \E inputs \in JlpInputLists, rot \in JlpRotationChoices, text \in AngleTexts,
          d \in DurationChoices :
           /\ inputs # <<>>
           /\ get_video_duration(d).ok
           /\ PysideBind(inputs, rot, text)
           /\ ExtractRotatedFrame(InputPath(inputs[1]), rot, PysidePreviewAngle(text), d, 1, Empty)
    /\ result' = Dialog("critical", "Failed to generate preview: CalledProcessError")
    /\ pc' = "done"
    /\ UNCHANGED <<tmpdir, i, moved, output_files, progressLog, pbar, invoked, dirs,
                   ffmpeg_path, frozen, bundled_ffmpeg>>

PysidePreviewLoadFails ==
    /\ pc = "idle"
    /\ FFmpegResolved
    /\ \E inputs \in JlpInputLists, rot \in JlpRotationChoices, text \in AngleTexts,
          d \in DurationChoices :
           /\ inputs # <<>>
           /\ get_video_duration(d).ok
           /\ PysideBind(inputs, rot, text)
           /\ ExtractRotatedFrame(InputPath(inputs[1]), rot, PysidePreviewAngle(text), d, 0, Empty)
    /\ result' = Dialog("critical", "Failed to generate preview: UnidentifiedImageError")
    /\ pc' = "done"
    /\ UNCHANGED <<tmpdir, i, moved, output_files, progressLog, pbar, invoked, dirs,
                   ffmpeg_path, frozen, bundled_ffmpeg>>

PysidePreviewShown ==
    /\ pc = "idle"
    /\ FFmpegResolved
    /\ \E inputs \in JlpInputLists, rot \in JlpRotationChoices, text \in AngleTexts,
          d \in DurationChoices :
           /\ inputs # <<>>
           /\ get_video_duration(d).ok
           /\ PysideBind(inputs, rot, text)
           /\ LET input_path == InputPath(inputs[1])
                  angle == PysidePreviewAngle(text)
              IN  ExtractRotatedFrame(input_path, rot, angle, d, 0,
                                      Frame(input_path, FilterOption(rot, angle).val,
                                            files[input_path]))
    /\ pc' = "preview_open"
    /\ UNCHANGED <<tmpdir, i, moved, output_files, progressLog, pbar, invoked, dirs,
                   ffmpeg_path, frozen, bundled_ffmpeg, result>>

\* The user closes the preview window: nothing is connected to the close, the
\* window object stays (a child of the main window) and so does the frame file.
PysidePreviewClosed ==
    /\ pc = "preview_open"
    /\ variant = "pyside_preview"
    /\ result' = Dialog("closed", "Preview")
    /\ pc' = "preview_closed"
    /\ UNCHANGED <<variant, input_videos, rotation, custom_angle, output_dir, tmpdir, i,
                   moved, output_files, progressLog, pbar, invoked, files, dirs, ffmpeg_path,
                   frozen, bundled_ffmpeg, angle_text, preview_runs>>

\* The window object is destroyed (with the main window): the destroyed
\* signal runs cleanup, which calls preview_window.close() on the object
\* under destruction before os.remove; whether that call raises, and the
\* file is left, depends on the binding.
PysidePreviewDestroyed ==
    /\ pc \in { "preview_open", "preview_closed" }
    /\ variant = "pyside_preview"
    /\ files' \in { RemoveFile(files, TempFrame), files }
    /\ result' = Dialog("destroyed", "Preview")
    /\ pc' = "done"
    /\ UNCHANGED <<variant, input_videos, rotation, custom_angle, output_dir, tmpdir, i,
                   moved, output_files, progressLog, pbar, invoked, dirs, ffmpeg_path,
                   frozen, bundled_ffmpeg, angle_text, preview_runs>>

-----------------------------------------------------------------------------

Next ==
    \/ BatchRejected
    \/ BatchMkdirRaises
    \/ BatchEnter
    \/ BatchProgress
    \/ RotateNoFFmpeg
    \/ RotateKeyError
    \/ RotateSucceeds
    \/ RotateFails
    \/ MoveRaises
    \/ MoveSucceeds
    \/ JlpRejected
    \/ JlpEnter
    \/ JlpAngleError
    \/ JlpNoFFmpeg
    \/ JlpExecFails
    \/ JlpRotateFails
    \/ JlpRotateSucceeds
    \/ TkRejected
    \/ TkEnter
    \/ TkAngleError
    \/ TkNoFFmpeg
    \/ TkRotateFails
    \/ TkRotateSucceeds
    \/ PysideRejected
    \/ PysideEnter
    \/ PysideAngleError
    \/ PysideNoFFmpeg
    \/ PysideRotateFails
    \/ PysideRotateSucceeds
    \/ RotateVideoCall
    \/ PreviewAngleError
    \/ PreviewNoFiles
    \/ PreviewNoFFmpeg
    \/ PreviewExecFails
    \/ PreviewProbeFails
    \/ PreviewExtractFails
    \/ PreviewLoadFails
    \/ PreviewShown
    \/ PreviewClosed
    \/ PysidePreviewNoFiles
    \/ PysidePreviewNoFFmpeg
    \/ PysidePreviewProbeFails
    \/ PysidePreviewExtractFails
    \/ PysidePreviewLoadFails
    \/ PysidePreviewShown
    \/ PysidePreviewClosed
    \/ PysidePreviewDestroyed

Spec == Init /\ [][Next]_vars

-----------------------------------------------------------------------------
(* Vocabulary of the properties *)

Total == Len(input_videos)

\* The output file name derived for item k.
DerivedName(k) == OutputFilename(InputPath(input_videos[k]))

DistinctNames == \A j, k \in 1..Total : j # k => DerivedName(j) # DerivedName(k)

\* Item k was transcoded with exit status 0 by batch_rotate_videos.
Succeeded(k) == k <= Len(output_files) /\ ~IsErrorString(output_files[k])

\* batch_rotate_videos entered its with block and attempted every item.
LoopComplete == variant = "gradio" /\ tmpdir = TmpDir /\ i = Total

\* Where item k's output belongs in the output directory.
FinalPath(k) == join(output_dir.val, DerivedName(k))

\* The files of the output directory that a transcoder run wrote.
OutputDirNew ==
    { p \in DOMAIN files : parent(p) = output_dir.val /\ files[p].kind # "source" }

\* The files of the output directory that hold a complete transcoder output.
OutputDirPlaced ==
    { p \in DOMAIN files : parent(p) = output_dir.val /\ files[p].kind = "rotated" }

\* Every transcoder command with a filter that was built so far: the rotate
\* commands and the frame commands of the preview.
FilterCommands ==
    { [input |-> invoked[k].input, filter |-> invoked[k].filter] : k \in 1..Len(invoked) }
        \cup { [input |-> preview_runs[k].input, filter |-> preview_runs[k].filter] :
                   k \in { n \in 1..Len(preview_runs) : preview_runs[n].kind = "frame" } }

\* A number that is present and finite.
FiniteAngle(angle) == angle.some /\ "inf" \notin DOMAIN angle

\* The call did nothing observable: no run, no outcome, no progress, no
\* staging directory, the file system as it was.
NothingDone ==
    /\ invoked = <<>>
    /\ output_files = <<>>
    /\ progressLog = <<>>
    /\ i = 0
    /\ tmpdir = <<>>
    /\ dirs = InitialDirs
    /\ files = InitialFiles

Rejected(msg) == pc = "done" /\ result = Returned(msg)

\* a/b <= c/d for positive denominators.
FracLeq(f, g) == f.num * g.den <= g.num * f.den

-----------------------------------------------------------------------------
(* Properties *)

\* C1 (as claimed): a batch of n inputs with distinct derived names, k of
\* which fail in the transcoder, completes, and the output directory then
\* holds exactly the n-k outputs of the successful items.  (Runs in which the
\* file system refused a move are left aside.)
C1_PartialFailurePlacesTheRest ==
    (pc = "done" /\ LoopComplete /\ DistinctNames /\ result # Raised("OSError"))
        => /\ result = Returned("None")
           /\ OutputDirNew = { FinalPath(k) : k \in { n \in 1..Total : Succeeded(n) } }

\* C2 (as claimed): whenever a transcoder run exits non-zero, the rotate
\* operation yields the failure value instead of raising, and the loop still
\* runs the transcoder for every later item of the list.
C2_FailureNeverAbortsBatch ==
    \A k \in 1..Len(invoked) :
        invoked[k].exit # 0
            => /\ result # Dialog("showerror", "CalledProcessError")
               /\ result # Dialog("critical", "CalledProcessError")
               /\ variant = "gradio" =>
                      /\ Len(output_files) >= k
                      /\ output_files[k] = ErrorString(invoked[k].input)
               /\ pc = "done" => Len(invoked) = Total

\* C3 (as claimed): a batch that passed validation and attempted every item
\* hands back to its caller one outcome per input, in input order, failures
\* included.  (Runs in which the file system refused a move are left aside.)
C3_OneOutcomePerInputReturned ==
    (pc = "done" /\ LoopComplete /\ result # Raised("OSError"))
        => /\ result = Returned("output_files")
           /\ Len(output_files) = Total
           /\ \A k \in 1..Total :
                  output_files[k] \in { join(tmpdir, DerivedName(k)),
                                        ErrorString(InputPath(input_videos[k])) }

\* C4: batch_rotate_videos rejects an empty input list, rotation "custom"
\* without an angle, and an empty or unset output directory, each with its
\* own message; no transcoder run is started, no item is processed, no
\* staging directory is created and the file system is untouched.
C4_ValidationRejectsBeforeWork ==
    variant = "gradio" =>
        /\ input_videos = <<>> => Rejected("Error: No files uploaded.") /\ NothingDone
        /\ (input_videos # <<>> /\ rotation = Some("custom") /\ ~custom_angle.some)
               => Rejected("Error: Please provide a custom angle.") /\ NothingDone
        /\ (input_videos # <<>> /\ rotation # Some("custom") /\ ~TruthySeq(output_dir))
               => Rejected("Error: Please specify an output directory.") /\ NothingDone
        /\ ~TruthySeq(output_dir) => result.kind = "returned" /\ NothingDone

C4_Witness ==
    /\ variant = "gradio"
    /\ Len(input_videos) = 2
    /\ rotation = Some("custom")
    /\ custom_angle = NoneNum
    /\ Rejected("Error: Please provide a custom angle.")

\* The transcoder of the entry point cannot be resolved: shutil.which finds
\* no ffmpeg, or, for jlp-rotate.py in a bundle, the bundle holds none.
TranscoderUnresolved ==
    IF variant \in { "jlp", "jlp_preview" }
    THEN ~(TruthySeq(JlpFFmpegPath) /\ (frozen => bundled_ffmpeg))
    ELSE ~TruthySeq(ffmpeg_path)

\* C5: when the transcoder cannot be resolved, a batch that got past its own
\* validation (and, in the desktop front ends, past the reading of the angle
\* entry) ends with the job-level error (RuntimeError out of
\* batch_rotate_videos, the error dialog of process_videos); no transcoder
\* run was started, no item was completed and nothing was recorded as an
\* item's outcome.
C5_MissingTranscoderIsJobLevel ==
    TranscoderUnresolved =>
        /\ invoked = <<>>
        /\ output_files = <<>>
        /\ i = 0
        /\ pbar = 0
        /\ (pc = "done" /\ variant = "gradio" /\ tmpdir = TmpDir)
               => result = Raised("RuntimeError")
        /\ (/\ pc = "done"
            /\ variant = "jlp"
            /\ JlpValidation(input_videos, output_dir) = "ok"
            /\ DoubleVarGet(angle_text).ok)
               => result = Dialog("showerror", IF frozen THEN "FileNotFoundError"
                                                         ELSE "FFmpeg not found.")
        /\ (/\ pc = "done"
            /\ variant = "tk"
            /\ JlpValidation(input_videos, output_dir) = "ok"
            /\ DoubleVarGet(angle_text).ok)
               => result = Dialog("showerror", "FFmpeg not found.")
        /\ (/\ pc = "done"
            /\ variant = "pyside"
            /\ JlpValidation(input_videos, output_dir) = "ok"
            /\ ParseFloat(angle_text).ok)
               => result = Dialog("critical", "FFmpeg not found.")

C5_Witness ==
    /\ ~TruthySeq(ffmpeg_path)
    /\ variant = "gradio"
    /\ Len(input_videos) = 3
    /\ pc = "done"
    /\ result = Raised("RuntimeError")

\* C6 (as claimed): when one item's move into the output directory fails,
\* only that item is affected: every other successfully staged output is in
\* the output directory when the batch call ends.
C6_MoveFailureIsPerItem ==
    (pc = "done" /\ LoopComplete /\ DistinctNames)
        => \A k \in 1..Total :
               (Succeeded(k) /\ k # moved + 1)
                   => /\ FinalPath(k) \in DOMAIN files
                      /\ files[FinalPath(k)].kind = "rotated"
                      /\ files[FinalPath(k)].of = InputPath(input_videos[k])

\* C7 (as claimed): when two inputs from different directories derive the
\* same output name (and every item was transcoded successfully), the batch
\* completes without an error and the output directory holds one file of
\* that name, with the later item's result.
C7_CollisionOverwritesSilently ==
    (/\ pc = "done"
     /\ LoopComplete
     /\ \A k \in 1..Total : Succeeded(k)
     /\ result # Raised("OSError"))
        => \A j, k \in 1..Total :
               (/\ j < k
                /\ DerivedName(j) = DerivedName(k)
                /\ InputPath(input_videos[j]) # InputPath(input_videos[k])
                /\ \A m \in (k + 1)..Total : DerivedName(m) # DerivedName(k))
                   => /\ result = Returned("None")
                      /\ FinalPath(k) \in DOMAIN files
                      /\ files[FinalPath(k)].kind = "rotated"
                      /\ files[FinalPath(k)].of = InputPath(input_videos[k])

\* C8: when the batch call has ended, by return or by exception, the staging
\* directory does not exist and no file is left under it.
C8_StagingRemovedOnEveryExit ==
    pc = "done" =>
        /\ TmpDir \notin dirs
        /\ \A p \in DOMAIN files : ~IsUnder(p, TmpDir)

C8_Witness ==
    /\ pc = "done"
    /\ tmpdir = TmpDir
    /\ result = Raised("FileNotFoundError")
    /\ moved = 1
    /\ Total = 3
    /\ Succeeded(3)

\* C9 (as claimed): a batch with a non-empty output directory path that
\* does not exist is neither failed nor rejected for it: the directory is
\* created, missing parents included.
C9_OutputDirCreatedWithParents ==
    (pc # "idle" /\ input_videos # <<>> /\ TruthySeq(output_dir))
        => /\ (variant = "gradio" /\ Validation(input_videos, rotation, custom_angle, output_dir) = "ok")
               => isdir(output_dir.val) /\ tmpdir = TmpDir
           /\ variant = "jlp" => result # Dialog("showerror", "Invalid output directory.")

\* C10: in batch_rotate_videos the k-th reported progress value is (k-1)/n,
\* the value for the item at index k-1; it is reported before that item's
\* transcoder run starts; the reported values never decrease and lie in
\* [0,1], whatever the items' outcomes.
C10_ProgressBeforeEachItem ==
    variant = "gradio" =>
        /\ \A k \in 1..Len(progressLog) :
               /\ progressLog[k].num = k - 1
               /\ progressLog[k].den = Total
               /\ 0 <= progressLog[k].num
               /\ progressLog[k].num <= progressLog[k].den
               /\ progressLog[k].den > 0
        /\ \A j, k \in 1..Len(progressLog) :
               j <= k => FracLeq(progressLog[j], progressLog[k])
        /\ Len(invoked) <= Len(progressLog)
        /\ Len(progressLog) <= Len(invoked) + 1
        /\ pc = "rotate" => Len(progressLog) = Len(invoked) + 1

C10_Witness ==
    /\ variant = "gradio"
    /\ Len(progressLog) = 3
    /\ Len(invoked) = 3
    /\ invoked[1].exit = 0
    /\ invoked[2].exit = 1
    /\ invoked[3].exit = 0

\* C11 (as claimed): while an item of the batch is still unattempted, the
\* output directory holds no output of the batch; every move of the second
\* loop comes after the last item's transcoder run; and what is placed in the
\* output directory lies under an item's derived name.
C11_OutputsPlacedAfterAllAttempted ==
    (variant \in { "gradio", "tk", "pyside" } /\ pc # "idle" /\ TruthySeq(output_dir))
        => /\ i < Total => OutputDirPlaced = {}
           /\ moved > 0 => i = Total /\ Len(invoked) = Total
           /\ OutputDirPlaced \subseteq { FinalPath(k) : k \in 1..Total }

\* C12: in every transcoder command that carries a filter, the rotate
\* commands of every entry point and the frame command of the preview, the
\* filter is "transpose=1" for rotation "90", "transpose=2,transpose=2" for
\* "180" and "transpose=2" for "270", whatever the input path, the custom
\* angle and the output directory are.
C12_FixedModeFilterByModeAlone ==
    \A c \in FilterCommands :
        /\ rotation = Some("90") => c.filter = "transpose=1"
        /\ rotation = Some("180") => c.filter = "transpose=2,transpose=2"
        /\ rotation = Some("270") => c.filter = "transpose=2"

C12_Witness ==
    /\ variant = "jlp_preview"
    /\ rotation = Some("270")
    /\ custom_angle = FloatNum(45)
    /\ Len(preview_runs) = 2
    /\ preview_runs[2].kind = "frame"
    /\ preview_runs[2].filter = "transpose=2"
    /\ preview_runs[2].input = <<"b", SEP, "y", DOT, "tar", DOT, "mov">>

\* C13 (as claimed): with rotation "custom" and an angle that is absent or
\* not finite, no transcoder command with a filter is built or run, and a
\* rotate_video call that got as far as the filter ends with an InvalidAngle
\* error.
C13_CustomWithoutAngleIsInvalidAngle ==
    (rotation = Some("custom") /\ ~FiniteAngle(custom_angle))
        => /\ FilterCommands = {}
           /\ (variant = "rotate_video" /\ pc = "done" /\ FFmpegResolved)
                  => result = Raised("InvalidAngle")

\* C14 (as claimed): when the preview operation has ended, by an error
\* dialog or by the closing of the preview window, the temporary frame file
\* it created does not exist.
C14_PreviewTempFileRemovedOnEveryExit ==
    (variant \in { "jlp_preview", "pyside_preview" } /\ pc \in { "preview_closed", "done" })
        => TempFrame \notin DOMAIN files

\* C15 (as claimed): at every point of a batch (batch_rotate_videos,
\* process_videos of tkrotate.py) every file of the input list is still
\* there with its original content, and every file a transcoder run wrote
\* was made from an input that held its original content when it was read.
C15_InputsNeverOverwritten ==
    (variant \in { "gradio", "tk", "pyside" } /\ pc # "idle")
        => /\ \A k \in 1..Total :
                  LET input_path == InputPath(input_videos[k])
                  IN  /\ input_path \in DOMAIN files
                      /\ files[input_path] = Source(input_path)
           /\ \A p \in DOMAIN files :
                  files[p].kind \in { "rotated", "partial" } => files[p].from = "source"

\* C16 (as claimed): once the validation of batch_rotate_videos has passed,
\* the rotation selection has a filter and the batch does not end with the
\* KeyError of the filter lookup.
C16_ValidatedRotationHasFilter ==
    (/\ variant = "gradio"
     /\ pc # "idle"
     /\ Validation(input_videos, rotation, custom_angle, output_dir) = "ok")
        => /\ Len(invoked) > 0 => FilterOption(rotation, custom_angle).ok
           /\ result # Raised("KeyError")

====
